---- MODULE Spec2Model ----
(***************************************************************************)
(* Cycling Safety in France dashboard: the cleaning pipeline               *)
(* (utils/prep.py), the cached loader (utils/io.py, app.py get_data), the  *)
(* sidebar filter (app.py apply_filters) and the figures of the section    *)
(* pages (sections/*.py), as a state machine; and the script that fetches  *)
(* the dataset (download_data.py).                                         *)
(*                                                                         *)
(* A data frame is a record [cols, rows]: cols is the set of column names, *)
(* rows the sequence of its rows, each carrying its pandas index label in  *)
(* the field "index".  A nullable cell is NaN (the empty tuple) or <<v>>.  *)
(***************************************************************************)
EXTENDS Integers, Sequences, FiniteSets, TLC

VARIABLES
    file,                   \* data/accidentsVelofull.csv as read by read_csv
    pc,                     \* where the process is
    df_raw,                 \* app.py global df_raw
    df,                     \* app.py global df (the cleaned table)
    tables,                 \* app.py global tables (the aggregates)
    cache,                  \* st.cache_data entries of load_data and get_data
    calls,                  \* how often each pipeline function body has run
    section,                \* sidebar radio
    year_range,             \* sidebar slider
    selected_departments,   \* sidebar multiselect
    selected_gravity,       \* sidebar multiselect
    selected_agglomeration, \* sidebar selectbox
    df_filtered,            \* app.py global df_filtered
    view,                   \* the page the last run rendered, and how it ended
    download_pc,            \* where download_dataset is
    output_path,            \* chunks in data/accidentsVelofull.csv, NaN: no file
    requests_sent,          \* how many requests.get calls were made
    runs,                   \* how many times download_dataset was started
    printed                 \* the last message download_dataset printed

download_vars == <<download_pc, output_path, requests_sent, runs, printed>>

vars == <<file, pc, df_raw, df, tables, cache, calls, section, year_range,
          selected_departments, selected_gravity, selected_agglomeration,
          df_filtered, view, download_vars>>

widgets == <<section, year_range, selected_departments, selected_gravity,
             selected_agglomeration>>

(***************************************************************************)
(* Bounds of the model.                                                    *)
(***************************************************************************)
\* rows of a raw file in the pipeline specification
MaxRows == 2
\* rows of a raw file in the dashboard specification
MaxAppRows == 2
\* cap on the pipeline call counters
MaxCalls == 3
\* columns a raw file can lack in the schema specification
MaxMissing == 1
\* rows of a raw file in the schema specification
MaxSchemaRows == 1
\* largest hour written in a time cell of the features specification
MaxHour == 24
\* largest age written in an age cell of the features specification
MaxAge == 121
\* largest code written in a coded cell of the features specification
MaxCode == 9
\* runs of download_dataset in the download specification
MaxRuns == 6
\* chunks of 8192 bytes the response body is streamed in
MaxChunks == 4

(***************************************************************************)
(* Nullable cells.                                                         *)
(***************************************************************************)
NaN == <<>>

Some(v) == <<v>>

isna(x) == x = NaN

notna(x) == x # NaN

Range(f) == {f[k] : k \in DOMAIN f}

RECURSIVE SumOver(_, _)
\* sum of f[k] over the finite set S
SumOver(f, S) ==
    IF S = {} THEN 0
    ELSE LET k == CHOOSE e \in S : TRUE IN f[k] + SumOver(f, S \ {k})

(***************************************************************************)
(* Decoding dictionaries (prep.py 15-125).                                 *)
(***************************************************************************)
\* a plausible slip: the labels of codes 2 and 3 exchanged
GRAVITY_DICT_swapped ==
    (1 :> "Unharmed") @@ (2 :> "Hospitalized") @@ (3 :> "Killed")
    @@ (4 :> "Minor injury")

GRAVITY_DICT ==
    (1 :> "Unharmed") @@ (2 :> "Killed") @@ (3 :> "Hospitalized")
    @@ (4 :> "Minor injury")

\* a plausible slip: the labels of codes 3 and 4 exchanged
LIGHTING_DICT_exchanged ==
    (1 :> "Daylight") @@ (2 :> "Twilight or dawn")
    @@ (3 :> "Night with street lighting off")
    @@ (4 :> "Night without street lighting")
    @@ (5 :> "Night with street lighting on")

LIGHTING_DICT ==
    (1 :> "Daylight") @@ (2 :> "Twilight or dawn")
    @@ (3 :> "Night without street lighting")
    @@ (4 :> "Night with street lighting off")
    @@ (5 :> "Night with street lighting on")

WEATHER_DICT ==
    (1 :> "Normal") @@ (2 :> "Light rain") @@ (3 :> "Heavy rain")
    @@ (4 :> "Snow - hail") @@ (5 :> "Fog - smoke")
    @@ (6 :> "Strong wind - storm") @@ (7 :> "Dazzling weather")
    @@ (8 :> "Overcast") @@ (9 :> "Other")

AGGLOMERATION_DICT ==
    (1 :> "Outside built-up area") @@ (2 :> "In built-up area")

INTERSECTION_DICT ==
    (1 :> "Outside intersection") @@ (2 :> "X intersection")
    @@ (3 :> "T intersection") @@ (4 :> "Y intersection")
    @@ (5 :> "Intersection with more than 4 branches")
    @@ (6 :> "Roundabout") @@ (7 :> "Square") @@ (8 :> "Level crossing")
    @@ (9 :> "Other intersection")

ROAD_CATEGORY_DICT ==
    (1 :> "Highway") @@ (2 :> "National road") @@ (3 :> "Departmental road")
    @@ (4 :> "Municipal road") @@ (5 :> "Off public network")
    @@ (6 :> "Parking lot") @@ (9 :> "Other")

SURFACE_DICT ==
    (1 :> "Normal") @@ (2 :> "Wet") @@ (3 :> "Puddles") @@ (4 :> "Flooded")
    @@ (5 :> "Snowy") @@ (6 :> "Mud") @@ (7 :> "Icy")
    @@ (8 :> "Oil - grease") @@ (9 :> "Other")

INFRASTRUCTURE_DICT ==
    (0 :> "Without infrastructure")
    @@ (1 :> "Bike lane (physically separated)")
    @@ (2 :> "Bike lane (painted)") @@ (3 :> "Reserved lane")
    @@ (4 :> "Other infrastructure")

SITUATION_DICT ==
    (-1 :> "Not specified") @@ (0 :> "None") @@ (1 :> "On roadway")
    @@ (2 :> "On emergency lane") @@ (3 :> "On shoulder")
    @@ (4 :> "On sidewalk") @@ (5 :> "On bike path")
    @@ (6 :> "On other special lane") @@ (8 :> "Other")

GENDER_DICT == (1 :> "Male") @@ (2 :> "Female")

TRIP_PURPOSE_DICT ==
    (0 :> "Not specified") @@ (1 :> "Home - work") @@ (2 :> "Home - school")
    @@ (3 :> "Shopping") @@ (4 :> "Professional use") @@ (5 :> "Leisure")
    @@ (9 :> "Other")

COLLISION_TYPE_DICT ==
    (1 :> "Two vehicles - front") @@ (2 :> "Two vehicles - from rear")
    @@ (3 :> "Two vehicles - from side")
    @@ (4 :> "Three or more vehicles - chain")
    @@ (5 :> "Three or more vehicles - multiple")
    @@ (6 :> "Other collision") @@ (7 :> "Without collision")

\* decoded column |-> <<raw column, dictionary>> (prep.py 205-216)
DecodedColumns ==
    [gravity |-> <<"grav", GRAVITY_DICT>>,
     lighting |-> <<"lum", LIGHTING_DICT>>,
     weather |-> <<"atm", WEATHER_DICT>>,
     agglomeration |-> <<"agg", AGGLOMERATION_DICT>>,
     intersection_type |-> <<"int", INTERSECTION_DICT>>,
     road_category |-> <<"catr", ROAD_CATEGORY_DICT>>,
     surface_condition |-> <<"surf", SURFACE_DICT>>,
     infrastructure |-> <<"infra", INFRASTRUCTURE_DICT>>,
     situation |-> <<"situ", SITUATION_DICT>>,
     gender |-> <<"sexe", GENDER_DICT>>,
     trip_purpose |-> <<"trajet", TRIP_PURPOSE_DICT>>,
     collision_type |-> <<"col", COLLISION_TYPE_DICT>>]

\* Series.map(dict) with the raw code kept where the dictionary has no entry
Series_map_keep_code(code, dict) ==
    IF isna(code) THEN NaN
    ELSE IF code[1] \in DOMAIN dict THEN Some(dict[code[1]]) ELSE code

\* Series.map(dict) on one cell: a code without an entry maps to NaN
Series_map(code, dict) ==
    IF isna(code) THEN NaN
    ELSE IF code[1] \in DOMAIN dict THEN Some(dict[code[1]]) ELSE NaN

(***************************************************************************)
(* Dates and times.  A date cell holds the text of a day, modelled by its  *)
(* three numbers [y, m, d]; a time cell holds "HH:MM", modelled by [h, mi].*)
(* The numbers need not form a calendar date or a time of day.             *)
(***************************************************************************)
IsLeap(y) == (y % 4 = 0 /\ y % 100 # 0) \/ y % 400 = 0

DaysInMonth(y, m) ==
    IF m = 2 THEN (IF IsLeap(y) THEN 29 ELSE 28)
    ELSE IF m \in {4, 6, 9, 11} THEN 30 ELSE 31

\* pd.to_datetime(cell, errors='coerce') on a date cell: NaT unless a calendar date
to_datetime(cell) ==
    IF isna(cell) THEN NaN
    ELSE IF cell[1].m \in 1..12 /\ cell[1].d \in 1..DaysInMonth(cell[1].y, cell[1].m)
         THEN cell ELSE NaN

\* pd.to_datetime(cell, format='%H:%M', errors='coerce') on a time cell
to_datetime_HM(cell) ==
    IF isna(cell) THEN NaN
    ELSE IF cell[1].h \in 0..23 /\ cell[1].mi \in 0..59 THEN cell ELSE NaN

\* pd.to_datetime(date + ' ' + hrmn, errors='coerce')
to_datetime_both(date, hrmn) ==
    IF isna(to_datetime(date)) \/ isna(to_datetime_HM(hrmn)) THEN NaN
    ELSE Some([y |-> date[1].y, m |-> date[1].m, d |-> date[1].d,
               h |-> hrmn[1].h, mi |-> hrmn[1].mi])

MonthNames ==
    <<"January", "February", "March", "April", "May", "June", "July",
      "August", "September", "October", "November", "December">>

DayNames ==
    <<"Sunday", "Monday", "Tuesday", "Wednesday", "Thursday", "Friday",
      "Saturday">>

MonthOffsets == <<0, 3, 2, 5, 0, 3, 5, 1, 4, 6, 2, 4>>

\* day of the week of a calendar date, 0 = Sunday
Weekday(y, m, d) ==
    LET yy == IF m < 3 THEN y - 1 ELSE y
    IN (yy + (yy \div 4) - (yy \div 100) + (yy \div 400) + MonthOffsets[m] + d) % 7

\* .dt.month
dt_month(ts) == IF isna(ts) THEN NaN ELSE Some(ts[1].m)

\* .dt.month_name()
dt_month_name(ts) == IF isna(ts) THEN NaN ELSE Some(MonthNames[ts[1].m])

\* .dt.day_name()
dt_day_name(ts) ==
    IF isna(ts) THEN NaN
    ELSE Some(DayNames[Weekday(ts[1].y, ts[1].m, ts[1].d) + 1])

\* a plausible slip: an unparsed time counts as midnight
dt_hour_or_midnight(ts) == IF isna(ts) THEN Some(0) ELSE Some(ts[1].h)

\* .dt.hour
dt_hour(ts) == IF isna(ts) THEN NaN ELSE Some(ts[1].h)

SeasonOf ==
    (12 :> "Winter") @@ (1 :> "Winter") @@ (2 :> "Winter")
    @@ (3 :> "Spring") @@ (4 :> "Spring") @@ (5 :> "Spring")
    @@ (6 :> "Summer") @@ (7 :> "Summer") @@ (8 :> "Summer")
    @@ (9 :> "Autumn") @@ (10 :> "Autumn") @@ (11 :> "Autumn")

(***************************************************************************)
(* pd.cut(x, bins, labels, include_lowest): right-closed intervals         *)
(* (bins[i], bins[i+1]]; the first also holds bins[1] when include_lowest. *)
(***************************************************************************)
\* a plausible slip: right=False, the intervals [bins[i], bins[i+1])
\* (include_lowest then changes nothing)
cut_left_closed(x, bins, labels, include_lowest) ==
    IF isna(x) THEN NaN
    ELSE LET hit == {i \in 1..Len(labels) :
                        bins[i] <= x[1] /\ x[1] < bins[i + 1]}
         IN IF hit = {} THEN NaN ELSE Some(labels[CHOOSE i \in hit : TRUE])

\* pd.cut with its default right=True
cut(x, bins, labels, include_lowest) ==
    IF isna(x) THEN NaN
    ELSE LET hit == {i \in 1..Len(labels) :
                        \/ bins[i] < x[1] /\ x[1] <= bins[i + 1]
                        \/ include_lowest /\ i = 1 /\ x[1] = bins[1]}
         IN IF hit = {} THEN NaN ELSE Some(labels[CHOOSE i \in hit : TRUE])

TimePeriodBins == <<0, 6, 12, 18, 24>>

TimePeriodLabels ==
    <<"Night (0-6h)", "Morning (6-12h)", "Afternoon (12-18h)", "Evening (18-24h)">>

AgeBins == <<0, 12, 17, 25, 35, 50, 65, 100>>

AgeLabels == <<"0-12", "13-17", "18-25", "26-35", "36-50", "51-65", "65+">>

\* Series.isin(values) on one cell
isin(cell, values) == notna(cell) /\ cell[1] \in values

\* a plausible slip: a zero is put in front of every code
zfill2_always_pads(s) == "0" \o s

\* str.zfill(2)
zfill2(s) ==
    IF Len(s) >= 2 THEN s
    ELSE IF s \in {"+", "-"} THEN s \o "0"
    ELSE IF Len(s) = 1 THEN "0" \o s ELSE "00"

\* astype(str) on a dep cell: a missing cell becomes the text "nan"
astype_str(cell) == IF isna(cell) THEN "nan" ELSE cell[1]

(***************************************************************************)
(* The raw file.                                                           *)
(***************************************************************************)
\* the six technical columns clean_data drops first
columns_to_drop ==
    {"Num_Acc", "vehiculeid", "lartpc", "larrout", "nbv",
     "_infos_commune.code_epci"}

\* the encoded columns clean_data drops last
columns_to_remove_after_decoding ==
    {"grav", "lum", "atm", "agg", "int", "catr", "surf", "infra", "situ",
     "sexe", "trajet", "col", "an"}

\* the columns whose cells the model carries
CellColumns ==
    {"an", "grav", "date", "hrmn", "age", "dep", "lum", "atm", "agg", "int",
     "catr", "surf", "infra", "situ", "sexe", "trajet", "col"}

\* the columns of the published file; lat and long carry no cell in the model
RawColumns == CellColumns \cup columns_to_drop \cup {"lat", "long"}

\* the columns clean_data adds
AddedColumns ==
    DOMAIN DecodedColumns \cup
    {"datetime", "year", "month_num", "month_name", "day_of_week", "hour",
     "time_period", "age_group", "is_severe", "is_fatal",
     "dangerous_conditions", "has_bike_infrastructure", "is_weekend", "season"}

Day(y, m, d) == Some([y |-> y, m |-> m, d |-> d])

Time(h, mi) == Some([h |-> h, mi |-> mi])

\* the row of the specification's scenario: a cyclist killed on 2023-06-15 at 08:05
BaseRow ==
    [an |-> Some(2023), grav |-> Some(2), date |-> Day(2023, 6, 15),
     hrmn |-> Time(8, 5), age |-> Some(34), dep |-> Some("7"),
     lum |-> Some(1), atm |-> Some(1), agg |-> Some(2), int |-> Some(1),
     catr |-> Some(4), surf |-> Some(1), infra |-> Some(0), situ |-> Some(1),
     sexe |-> Some(1), trajet |-> Some(5), col |-> Some(3)]

\* the rows that differ from BaseRow in the one column c
Vary(c, cells) == {[BaseRow EXCEPT ![c] = v] : v \in cells}

\* raw rows of the pipeline specification: every admission rule passed and
\* failed at its edges, codes inside and outside every dictionary
RawRows ==
    {BaseRow}
    \cup Vary("an", {NaN, Some(2004), Some(2005), Some(2024)})
    \cup Vary("grav", {NaN, Some(3), Some(4), Some(9)})
    \cup Vary("date", {NaN, Day(2023, 13, 45), Day(2023, 2, 29), Day(2022, 12, 31)})
    \cup Vary("hrmn", {NaN, Time(25, 0), Time(18, 30)})
    \cup Vary("age", {NaN, Some(-1), Some(0), Some(120), Some(121)})
    \cup Vary("dep", {NaN, Some("2A"), Some("2B"), Some("75"), Some("975")})
    \cup Vary("lum", {NaN, Some(3), Some(-1)})
    \cup Vary("atm", {Some(-1)})
    \cup Vary("agg", {NaN, Some(1)})
    \cup Vary("int", {Some(0)})
    \cup Vary("catr", {Some(7)})
    \cup Vary("surf", {Some(-1)})
    \cup Vary("infra", {Some(1), Some(-1)})
    \cup Vary("situ", {Some(-1), Some(7)})
    \cup Vary("sexe", {Some(-1)})
    \cup Vary("trajet", {Some(-1)})
    \cup Vary("col", {Some(-1)})

\* raw rows of the dashboard specification: two years, three departments,
\* two severities and a code without a label, both location types and none
AppRows ==
    <<BaseRow,
      [BaseRow EXCEPT !.an = Some(2022), !.date = Day(2022, 12, 31),
                      !.dep = Some("75"), !.grav = Some(4), !.agg = Some(1)],
      [BaseRow EXCEPT !.dep = Some("2A"), !.grav = Some(9), !.agg = NaN]>>

\* the frame pd.read_csv returns for a file with the rows rs: indexed 0, 1, ...
Frame(rs) ==
    [cols |-> RawColumns,
     rows |-> [i \in DOMAIN rs |-> [index |-> i - 1] @@ rs[i]]]

(***************************************************************************)
(* clean_data (prep.py 132-288).                                           *)
(***************************************************************************)
\* first year admitted (prep.py 186)
YearMin == 2005

\* last year admitted (prep.py 186)
YearMax == 2023

\* oldest age admitted (prep.py 192)
AgeMax == 120

\* the first lighting code that counts as night (prep.py 258)
NightFrom == 3

\* df['lum'] >= 3: a comparison with NaN is False
is_night(lum) == notna(lum) /\ lum[1] >= NightFrom

\* a plausible slip: strong wind (6) and dazzling weather (7) count as well
bad_weather_with_wind(atm) == isin(atm, {2, 3, 4, 5, 6, 7})

\* df['atm'].isin([2, 3, 4, 5])
bad_weather(atm) == isin(atm, {2, 3, 4, 5})

\* df['surf'].isin([2, 3, 5, 7])
slippery(surf) == isin(surf, {2, 3, 5, 7})

\* a plausible slip: a reserved lane (3) counts as bike infrastructure too
has_bike_infrastructure_with_reserved(infra) == isin(infra, {1, 2, 3})

\* df['infra'].isin([1, 2])
has_bike_infrastructure_of(infra) == isin(infra, {1, 2})

\* a plausible slip: only hospitalized counts as severe
is_severe_hospitalized_only(grav) == isin(grav, {3})

\* df['grav'].isin([2, 3])
is_severe_of(grav) == isin(grav, {2, 3})

\* df['grav'] == 2
is_fatal_of(grav) == notna(grav) /\ grav[1] = 2

\* a plausible slip: the argument itself is written to (no copy, drop in place)
written_in_place(argument, local) == argument

\* the frame whose dep column prep.py 171 assigns: the one DataFrame.copy (151)
\* and DataFrame.drop (165) returned, a new object both times
written_frame(argument, local) == local

\* step 2: df['dep'].astype(str).str.zfill(2)
normalize_dep(rows) ==
    [i \in DOMAIN rows |-> [rows[i] EXCEPT !.dep = Some(zfill2(astype_str(@)))]]

\* a plausible slip: a severity code without a label is rejected too
has_known_gravity(r) == notna(r.grav) /\ r.grav[1] \in DOMAIN GRAVITY_DICT

\* step 3, rule 2: df['grav'].notna()
has_gravity(r) == notna(r.grav)

\* step 3, rule 4 as coded: df['date'].notna()
has_date(r) == notna(r.date)

\* step 3: the five filters, one after the other
remove_invalid_rows(rows) ==
    LET f1 == SelectSeq(rows, LAMBDA r : notna(r.an))
        f2 == SelectSeq(f1, has_gravity)
        f3 == SelectSeq(f2, LAMBDA r : r.an[1] >= YearMin /\ r.an[1] <= YearMax)
        f4 == SelectSeq(f3, has_date)
        f5 == SelectSeq(f4, LAMBDA r :
                  isna(r.age) \/ (r.age[1] >= 0 /\ r.age[1] <= AgeMax))
    IN f5

\* steps 5 to 8 on one admitted row: the columns added, the encoded ones dropped
enrich(r) ==
    LET day == to_datetime(r.date)
        hour == dt_hour(to_datetime_HM(r.hrmn))
        month_num == dt_month(day)
        day_of_week == dt_day_name(day)
    IN [index |-> r.index, date |-> r.date, hrmn |-> r.hrmn, age |-> r.age,
        dep |-> r.dep,
        gravity |-> Series_map(r.grav, GRAVITY_DICT),
        lighting |-> Series_map(r.lum, LIGHTING_DICT),
        weather |-> Series_map(r.atm, WEATHER_DICT),
        agglomeration |-> Series_map(r.agg, AGGLOMERATION_DICT),
        intersection_type |-> Series_map(r["int"], INTERSECTION_DICT),
        road_category |-> Series_map(r.catr, ROAD_CATEGORY_DICT),
        surface_condition |-> Series_map(r.surf, SURFACE_DICT),
        infrastructure |-> Series_map(r.infra, INFRASTRUCTURE_DICT),
        situation |-> Series_map(r.situ, SITUATION_DICT),
        gender |-> Series_map(r.sexe, GENDER_DICT),
        trip_purpose |-> Series_map(r.trajet, TRIP_PURPOSE_DICT),
        collision_type |-> Series_map(r.col, COLLISION_TYPE_DICT),
        datetime |-> to_datetime_both(r.date, r.hrmn),
        year |-> r.an,
        month_num |-> month_num,
        month_name |-> dt_month_name(day),
        day_of_week |-> day_of_week,
        hour |-> hour,
        time_period |-> cut(hour, TimePeriodBins, TimePeriodLabels, TRUE),
        age_group |-> cut(r.age, AgeBins, AgeLabels, FALSE),
        is_severe |-> is_severe_of(r.grav),
        is_fatal |-> is_fatal_of(r.grav),
        dangerous_conditions |->
            is_night(r.lum) \/ bad_weather(r.atm) \/ slippery(r.surf),
        has_bike_infrastructure |-> has_bike_infrastructure_of(r.infra),
        is_weekend |-> isin(day_of_week, {"Saturday", "Sunday"}),
        season |-> Series_map(month_num, SeasonOf)]

\* a frame without rows or columns
NoFrame == [cols |-> {}, rows |-> <<>>]

\* the columns clean_data reads with df[...], in the order it first reads them
\* (prep.py 171, 180, 183, 189, 192, 206-216, 222)
referenced_columns ==
    <<"dep", "an", "grav", "date", "age", "lum", "atm", "agg", "int", "catr",
      "surf", "infra", "situ", "sexe", "trajet", "col", "hrmn">>

\* a plausible slip: the KeyError is caught and an empty frame returned
handled_with_empty_frame(column) == TRUE

\* whether clean_data handles the KeyError of df[column]: it has no try
handled(column) == FALSE

\* the first column clean_data reads that the frame does not have: df[c]
\* raises KeyError(c) there; NaN when the frame has them all
missing_column(frame) ==
    LET absent == {k \in DOMAIN referenced_columns :
                      referenced_columns[k] \notin frame.cols}
    IN IF absent = {} THEN NaN
       ELSE Some(referenced_columns[CHOOSE k \in absent : \A l \in absent : k <= l])

\* clean_data(df_raw): raised is the column of the KeyError that ended the
\* call, or NaN when it returned; ret is the frame returned, arg the argument
\* after the call
clean_data(frame) ==
    LET pruned == [cols |-> frame.cols \ columns_to_drop, rows |-> frame.rows]
        written == written_frame("argument", "local") = "argument"
        partly == IF written /\ "dep" \in frame.cols
                  THEN [pruned EXCEPT !.rows = normalize_dep(@)] ELSE frame
    IN IF notna(missing_column(frame))
       THEN IF handled(missing_column(frame)[1])
            THEN [raised |-> NaN, ret |-> NoFrame, arg |-> partly]
            ELSE [raised |-> missing_column(frame), arg |-> partly]
       ELSE LET normalized == [pruned EXCEPT !.rows = normalize_dep(@)]
                admitted == remove_invalid_rows(normalized.rows)
                cleaned ==
                    [cols |-> (normalized.cols \cup AddedColumns)
                                  \ columns_to_remove_after_decoding,
                     rows |-> [i \in DOMAIN admitted |-> enrich(admitted[i])]]
            IN [raised |-> NaN,
                ret |-> cleaned,
                arg |-> IF written THEN normalized ELSE frame]

(***************************************************************************)
(* create_aggregated_tables (prep.py 345-385).  A count table is a         *)
(* function from the key combinations it has a row for to the count.       *)
(***************************************************************************)
\* the cells of row r in the columns by
key_of(r, by) == [j \in DOMAIN by |-> r[by[j]][1]]

\* the rows groupby keeps: with its default dropna=True, those with no NaN key
keyed(rows, by) ==
    {i \in DOMAIN rows : \A j \in DOMAIN by : notna(rows[i][by[j]])}

\* a plausible slip: nunique() of a key column instead of size()
group_nunique(rows, by, g) ==
    Cardinality({rows[i][by[1]] : i \in {k \in keyed(rows, by) : key_of(rows[k], by) = g}})

\* GroupBy.size() of the group with key g
group_size(rows, by, g) ==
    Cardinality({i \in keyed(rows, by) : key_of(rows[i], by) = g})

\* df.groupby(by).size().reset_index(name='count')
groupby_size(rows, by) ==
    LET groups == {key_of(rows[i], by) : i \in keyed(rows, by)}
    IN [g \in groups |-> group_size(rows, by, g)]

\* groupby with a categorical first key and observed=False: every category
\* crossed with every value seen in the second key has a row
groupby_size_categorical(rows, by, categories) ==
    LET seen == {rows[i][by[2]][1] : i \in {k \in DOMAIN rows : notna(rows[k][by[2]])}}
        groups == {<<c, v>> : c \in categories, v \in seen}
    IN [g \in groups |-> group_size(rows, by, g)]

\* df.groupby('dep').agg(date count, is_fatal sum, is_severe sum)
groupby_dep(rows) ==
    LET members(d) == {i \in keyed(rows, <<"dep">>) : rows[i].dep[1] = d}
        groups == {rows[i].dep[1] : i \in keyed(rows, <<"dep">>)}
    IN [d \in groups |->
           [total_accidents |-> Cardinality({i \in members(d) : notna(rows[i].date)}),
            fatal |-> Cardinality({i \in members(d) : rows[i].is_fatal}),
            severe |-> Cardinality({i \in members(d) : rows[i].is_severe})]]

create_aggregated_tables(frame) ==
    [by_year |-> groupby_size(frame.rows, <<"year", "gravity">>),
     by_department |-> groupby_dep(frame.rows),
     by_lighting |-> groupby_size(frame.rows, <<"lighting", "gravity">>),
     by_infrastructure |-> groupby_size(frame.rows, <<"infrastructure", "gravity">>),
     by_hour |-> groupby_size(frame.rows, <<"hour", "gravity">>),
     by_month_purpose |->
         groupby_size(frame.rows, <<"month_num", "month_name", "trip_purpose">>),
     by_age |-> groupby_size_categorical(frame.rows, <<"age_group", "gravity">>,
                                         Range(AgeLabels))]

(***************************************************************************)
(* load_data (io.py 10-24) and get_data (app.py 84-97), both wrapped by    *)
(* st.cache_data: the body runs when the cache has no entry, and the       *)
(* value it returned is served from then on.                               *)
(***************************************************************************)
NoTables == create_aggregated_tables(NoFrame)

\* a plausible slip: the decorator left off, so every call runs the body
cache_never_hit(entry) == FALSE

\* st.cache_data finds the entry of an earlier call (no ttl, no max_entries)
cache_hit(entry) == notna(entry)

\* pd.read_csv(data_path)
read_csv(f) == f

\* load_data(): val is the frame returned, ran tells whether the body ran
load_data(c, f) ==
    IF cache_hit(c.load_data)
    THEN [val |-> c.load_data[1], ran |-> 0, cache |-> c]
    ELSE [val |-> read_csv(f), ran |-> 1,
          cache |-> [c EXCEPT !.load_data = Some(read_csv(f))]]

\* get_data(): the three values returned, the cache and the counters
\* afterwards; when clean_data raises, get_data raises too (it has no try)
\* and st.cache_data stores no entry for it
get_data(c, n, f) ==
    IF cache_hit(c.get_data)
    THEN [raised |-> NaN, val |-> c.get_data[1], cache |-> c, calls |-> n]
    ELSE LET loaded == load_data(c, f)
             cleaning == clean_data(loaded.val)
         IN IF notna(cleaning.raised)
            THEN [raised |-> cleaning.raised,
                  cache |-> loaded.cache,
                  calls |-> [n EXCEPT !.load_data = @ + loaded.ran,
                                      !.clean_data = @ + 1]]
            ELSE LET val == [df_raw |-> cleaning.arg, df |-> cleaning.ret,
                             tables |-> create_aggregated_tables(cleaning.ret)]
                 IN [raised |-> NaN,
                     val |-> val,
                     cache |-> [loaded.cache EXCEPT !.get_data = Some(val)],
                     calls |-> [load_data |-> n.load_data + loaded.ran,
                                clean_data |-> n.clean_data + 1,
                                create_aggregated_tables |->
                                    n.create_aggregated_tables + 1]]

(***************************************************************************)
(* The sidebar and apply_filters (app.py 115-211).                         *)
(***************************************************************************)
Sections ==
    {"Introduction", "Data Quality", "Overview", "Deep Dive Analysis",
     "Conclusions"}

\* the sections that are handed df unfiltered (app.py 208)
Unfiltered == {"Introduction", "Data Quality"}

\* Series.dropna().unique() of a column
unique(rows, c) == {rows[i][c][1] : i \in {k \in DOMAIN rows : notna(rows[k][c])}}

Min(S) == CHOOSE x \in S : \A y \in S : x <= y

Max(S) == CHOOSE x \in S : \A y \in S : x >= y

\* the slider's ends: int(df['year'].min()), int(df['year'].max())
year_min(frame) == Min(unique(frame.rows, "year"))

year_max(frame) == Max(unique(frame.rows, "year"))

all_departments(frame) == {"All"} \cup unique(frame.rows, "dep")

gravity_options(frame) == {"All"} \cup unique(frame.rows, "gravity")

agglomeration_options(frame) == {"All"} \cup unique(frame.rows, "agglomeration")

\* a plausible slip: the upper end of the year range left out
year_in_range_open(year, range) == year[1] >= range[1] /\ year[1] < range[2]

\* app.py 188-189
year_in_range(year, range) == year[1] >= range[1] /\ year[1] <= range[2]

\* a plausible slip: an empty selection filters too, and matches nothing
nothing_selected_filters(selected) == "All" \notin selected

\* app.py 193: the department filter applies
departments_filtered(selected) ==
    "All" \notin selected /\ Cardinality(selected) > 0

\* app.py 197: the severity filter applies
gravity_filtered(selected) ==
    "All" \notin selected /\ Cardinality(selected) > 0

\* one of the four filters of apply_filters, numbered in the order of the code
filter_step(k, rows, f) ==
    CASE k = 1 -> SelectSeq(rows, LAMBDA r : year_in_range(r.year, f.year_range))
      [] k = 2 -> IF departments_filtered(f.departments)
                  THEN SelectSeq(rows, LAMBDA r : isin(r.dep, f.departments))
                  ELSE rows
      [] k = 3 -> IF gravity_filtered(f.gravity)
                  THEN SelectSeq(rows, LAMBDA r : isin(r.gravity, f.gravity))
                  ELSE rows
      [] k = 4 -> IF f.agglomeration # "All"
                  THEN SelectSeq(rows, LAMBDA r :
                           isin(r.agglomeration, {f.agglomeration}))
                  ELSE rows

RECURSIVE filter_steps(_, _, _)
\* the filters numbered in order, applied one after the other
filter_steps(order, rows, f) ==
    IF order = <<>> THEN rows
    ELSE filter_steps(Tail(order), filter_step(Head(order), rows, f), f)

\* a plausible slip: the rows are dropped from the frame passed in
filtered_in_place(argument, local) == argument

\* the frame the filters of apply_filters are applied to: dataframe.copy()
filtered_frame(argument, local) == local

\* apply_filters(dataframe): ret the frame returned, arg the argument afterwards
apply_filters(frame, f) ==
    LET filtered == [frame EXCEPT !.rows = filter_steps(<<1, 2, 3, 4>>, @, f)]
    IN [ret |-> filtered,
        arg |-> IF filtered_frame("argument", "local") = "argument"
                THEN filtered ELSE frame]

\* the filter specification the widgets hold
FilterSpec(yr, deps, grav, agg) ==
    [year_range |-> yr, departments |-> deps, gravity |-> grav,
     agglomeration |-> agg]

(***************************************************************************)
(* The section pages (sections/*.py), as far as they compute figures: the  *)
(* key metrics of the Overview (overview.py 36-50), the temporal           *)
(* statistics of the Deep Dive (deep_dives.py 41-129) and the cleaning     *)
(* summary of Data Quality (data_quality.py 115-178).  A page returns the  *)
(* exception that ended it (raised) or the figures it computed.            *)
(***************************************************************************)
\* the index a groupby builds for each key column: the values in sorted order
HourIndex == [k \in 1..24 |-> k - 1]

SeasonIndex == <<"Autumn", "Spring", "Summer", "Winter">>

DayIndex ==
    <<"Friday", "Monday", "Saturday", "Sunday", "Thursday", "Tuesday",
      "Wednesday">>

\* Series.round(1) of count / total * 100, in tenths of a percent (half to even)
round1(count, total) ==
    LET q == (1000 * count) \div total
        r == (1000 * count) % total
    IN IF 2 * r < total THEN q
       ELSE IF 2 * r > total THEN q + 1
       ELSE IF q % 2 = 0 THEN q ELSE q + 1

\* df.groupby(c).agg(total=size, fatal=is_fatal sum, severe=is_severe sum)
group_stats(rows, c) ==
    [v \in unique(rows, c) |->
        LET members == {i \in DOMAIN rows : rows[i][c] = Some(v)}
        IN [total |-> Cardinality(members),
            fatal |-> Cardinality({i \in members : rows[i].is_fatal}),
            severe |-> Cardinality({i \in members : rows[i].is_severe}),
            fatal_rate |->
                round1(Cardinality({i \in members : rows[i].is_fatal}),
                       Cardinality(members))]]

\* Series.idxmax(): the first label, in index order, of the largest value
idxmax(stats, field, index) ==
    index[Min({k \in DOMAIN index :
                  /\ index[k] \in DOMAIN stats
                  /\ \A g \in DOMAIN stats :
                         stats[g][field] <= stats[index[k]][field]})]

\* Series.idxmin(): the first label, in index order, of the smallest value
idxmin(stats, field, index) ==
    index[Min({k \in DOMAIN index :
                  /\ index[k] \in DOMAIN stats
                  /\ \A g \in DOMAIN stats :
                         stats[g][field] >= stats[index[k]][field]})]

\* (count / total * 100) if total > 0 else 0, as the fraction num / den
\* (overview.py 40-41)
rate_or_zero(count, total) ==
    IF total > 0 THEN Some([num |-> count * 100, den |-> total])
    ELSE Some([num |-> 0, den |-> 1])

\* Series.mean(): NaN when no cell holds a value
mean(rows, c) ==
    LET held == {i \in DOMAIN rows : notna(rows[i][c])}
    IN IF held = {} THEN NaN
       ELSE Some([num |-> SumOver([i \in held |-> rows[i][c][1]], held),
                  den |-> Cardinality(held)])

\* the four parameters of overview.render and deep_dives.render that have a
\* default (None), as Python binds them when the call names none of them
render_defaults ==
    [year_range |-> NaN, selected_departments |-> NaN,
     selected_gravity |-> NaN, selected_agglomeration |-> NaN]

\* filters_active as both pages compute it from their own parameters kw
filters_active(frame, kw) ==
    \/ /\ notna(kw.year_range)
       /\ kw.year_range[1] # <<year_min(frame), year_max(frame)>>
    \/ notna(kw.selected_departments) /\ kw.selected_departments[1] # {"All"}
    \/ notna(kw.selected_gravity) /\ kw.selected_gravity[1] # {"All"}
    \/ notna(kw.selected_agglomeration) /\ kw.selected_agglomeration[1] # "All"

\* overview.py 281: the warning that replaces the department map
location_warning(kw) ==
    notna(kw.selected_agglomeration) /\ kw.selected_agglomeration[1] # "All"

\* overview.render(df_filtered, tables, ...): the key metrics
overview_render(frame, tabs, kw) ==
    LET rows == frame.rows
        total_accidents == Len(rows)
        total_fatal == Cardinality({i \in DOMAIN rows : rows[i].is_fatal})
        total_severe == Cardinality({i \in DOMAIN rows : rows[i].is_severe})
        periods == group_stats(rows, "time_period")
    IN IF total_accidents > 0 /\ DOMAIN periods = {}
       THEN \* overview.py 48: mode() is empty and [0] raises
            [raised |-> Some("KeyError")]
       ELSE [raised |-> NaN,
             figures |->
                 [total_accidents |-> total_accidents,
                  total_fatal |-> total_fatal,
                  total_severe |-> total_severe,
                  fatal_rate |-> rate_or_zero(total_fatal, total_accidents),
                  severe_rate |-> rate_or_zero(total_severe, total_accidents),
                  avg_age |-> mean(rows, "age"),
                  most_common_period |->
                      IF total_accidents > 0
                      THEN idxmax(periods, "total", TimePeriodLabels)
                      ELSE "N/A",
                  location_warning |-> location_warning(kw),
                  filters_active |-> filters_active(frame, kw)]]

\* deep_dives.render(df_filtered, tables, ...): the temporal statistics
deep_dives_render(frame, tabs, kw) ==
    LET rows == frame.rows
        hourly_stats == group_stats(rows, "hour")
        seasonal_stats == group_stats(rows, "season")
        weekly_stats == group_stats(rows, "day_of_week")
    IN IF DOMAIN hourly_stats = {}
       THEN \* deep_dives.py 61: idxmax of an empty Series
            [raised |-> Some("ValueError")]
       ELSE IF DOMAIN seasonal_stats = {}
       THEN \* deep_dives.py 116: index[0] of an empty Index
            [raised |-> Some("IndexError")]
       ELSE IF DOMAIN weekly_stats = {}
       THEN \* deep_dives.py 128: idxmax of an empty Series
            [raised |-> Some("ValueError")]
       ELSE [raised |-> NaN,
             figures |->
                 [peak_hour |-> idxmax(hourly_stats, "total", HourIndex),
                  peak_count |->
                      hourly_stats[idxmax(hourly_stats, "total", HourIndex)].total,
                  lowest_hour |-> idxmin(hourly_stats, "total", HourIndex),
                  most_dangerous_hour |->
                      idxmax(hourly_stats, "fatal_rate", HourIndex),
                  highest_count |->
                      seasonal_stats[idxmax(seasonal_stats, "total", SeasonIndex)].total,
                  lowest_count |->
                      seasonal_stats[idxmin(seasonal_stats, "total", SeasonIndex)].total,
                  most_dangerous_season |->
                      idxmax(seasonal_stats, "fatal_rate", SeasonIndex),
                  safest_season |->
                      idxmin(seasonal_stats, "fatal_rate", SeasonIndex),
                  peak_day |-> idxmax(weekly_stats, "total", DayIndex),
                  filters_active |-> filters_active(frame, kw)]]

\* get_cleaning_summary(df_raw, df_clean) (prep.py 291-313), without the
\* two counts of missing values
get_cleaning_summary(raw, clean) ==
    [original_rows |-> Len(raw.rows),
     original_cols |-> Cardinality(raw.cols),
     cleaned_rows |-> Len(clean.rows),
     cleaned_cols |-> Cardinality(clean.cols),
     rows_removed |-> Len(raw.rows) - Len(clean.rows),
     cols_removed |-> Cardinality(raw.cols) - Cardinality(clean.cols)]

\* data_quality.render(df_raw, df_clean): the summary and the share of rows
\* removed, as the fraction num / den
data_quality_render(raw, clean) ==
    LET summary == get_cleaning_summary(raw, clean)
    IN IF summary.original_rows = 0
       THEN \* data_quality.py 178: int / 0
            [raised |-> Some("ZeroDivisionError")]
       ELSE [raised |-> NaN,
             figures |->
                 [summary |-> summary,
                  removal_pct |-> Some([num |-> summary.rows_removed * 100,
                                        den |-> summary.original_rows])]]

\* get_data_info() (io.py 27-44): fixed facts about the dataset
get_data_info == [source |-> "data.gouv.fr", period |-> "2005-2023"]

\* a plausible slip: the page is handed the cleaned table, not the filtered one
handed_cleaned(filtered, cleaned) == cleaned

\* the record-level table app.py 238 and 241 pass to the page: df_filtered
handed_frame(filtered, cleaned) == filtered

\* no page was rendered: the run ended before the dispatch with raised
NoView(raised) == [page |-> "none", handed |-> <<>>, raised |-> raised]

\* the number of parameters without a default in the def of each page
required_arguments ==
    ("intro.render" :> 1) @@ ("data_quality.render" :> 2)
    @@ ("overview.render" :> 2) @@ ("deep_dives.render" :> 2)
    @@ ("conclusions.render" :> 2)

\* calling page with the positional arguments args: Python raises TypeError
\* before the body runs when a parameter without a default gets no argument
call_error(page, args) ==
    IF Len(args) < required_arguments[page] THEN Some("TypeError") ELSE NaN

\* app.py 231-244: the call of the page of section sec, with what it is
\* handed and how it ends
dispatch(sec, raw, cleaned, filtered, tabs) ==
    CASE sec = "Introduction" ->
             [page |-> "intro.render", handed |-> <<get_data_info>>,
              raised |-> NaN, figures |-> get_data_info]
      [] sec = "Data Quality" ->
             [page |-> "data_quality.render", handed |-> <<raw, cleaned>>]
             @@ data_quality_render(raw, cleaned)
      [] sec = "Overview" ->
             [page |-> "overview.render",
              handed |-> <<handed_frame(filtered, cleaned), tabs>>]
             \* app.py 238 passes neither the year range nor a selection
             @@ overview_render(handed_frame(filtered, cleaned), tabs,
                                render_defaults)
      [] sec = "Deep Dive Analysis" ->
             [page |-> "deep_dives.render",
              handed |-> <<handed_frame(filtered, cleaned), tabs>>]
             \* app.py 241 passes neither the year range nor a selection
             @@ deep_dives_render(handed_frame(filtered, cleaned), tabs,
                                  render_defaults)
      [] sec = "Conclusions" ->
             \* conclusions.render(df_filtered, tables) is called without
             \* tables (app.py 244), so its body is never run
             [page |-> "conclusions.render",
              handed |-> <<handed_frame(filtered, cleaned)>>,
              raised |-> call_error("conclusions.render",
                                    <<handed_frame(filtered, cleaned)>>)]

(***************************************************************************)
(* The state machine.                                                      *)
(***************************************************************************)
\* the process before it has done anything
Unstarted ==
    /\ pc = "start"
    /\ df_raw = NoFrame
    /\ df = NoFrame
    /\ tables = NoTables
    /\ cache = [load_data |-> NaN, get_data |-> NaN]
    /\ calls = [load_data |-> 0, clean_data |-> 0, create_aggregated_tables |-> 0]
    /\ section = "Introduction"
    /\ year_range = NaN
    /\ selected_departments = {"All"}
    /\ selected_gravity = {"All"}
    /\ selected_agglomeration = "All"
    /\ df_filtered = NoFrame
    /\ view = NoView(NaN)
    /\ download_pc = "idle"
    /\ requests_sent = 0
    /\ runs = 0
    /\ printed = "nothing"

\* the dataset file as a finished download leaves it
Complete == Some(MaxChunks)

(***************************************************************************)
(* The pipeline, one function call per step (the body of get_data).        *)
(***************************************************************************)
\* df_raw = load_data()
LoadData ==
    /\ pc = "start"
    /\ LET loaded == load_data(cache, file)
       IN /\ df_raw' = loaded.val
          /\ cache' = loaded.cache
          /\ calls' = [calls EXCEPT !.load_data = @ + loaded.ran]
    /\ pc' = "loaded"
    /\ UNCHANGED <<file, df, tables, widgets, df_filtered, view, download_vars>>

\* df_clean = clean_data(df_raw); a KeyError ends get_data there
CleanData ==
    /\ pc = "loaded"
    /\ \E cleaning \in {clean_data(df_raw)} :
          /\ df_raw' = cleaning.arg
          /\ IF notna(cleaning.raised)
             THEN pc' = "KeyError" /\ df' = df
             ELSE pc' = "cleaned" /\ df' = cleaning.ret
    /\ calls' = [calls EXCEPT !.clean_data = @ + 1]
    /\ UNCHANGED <<file, tables, cache, widgets, df_filtered, view, download_vars>>

\* tables = create_aggregated_tables(df_clean); return df_raw, df_clean, tables
CreateAggregatedTables ==
    /\ pc = "cleaned"
    /\ tables' = create_aggregated_tables(df)
    /\ cache' = [cache EXCEPT !.get_data =
                    Some([df_raw |-> df_raw, df |-> df, tables |-> tables'])]
    /\ calls' = [calls EXCEPT !.create_aggregated_tables = @ + 1]
    /\ pc' = "aggregated"
    /\ UNCHANGED <<file, df_raw, df, widgets, df_filtered, view, download_vars>>

\* any file of up to MaxRows rows of RawRows
InitPipeline ==
    /\ \E k \in 0..MaxRows : \E rs \in [1..k -> RawRows] : file = Frame(rs)
    /\ Unstarted
    /\ output_path = Complete

NextPipeline == LoadData \/ CleanData \/ CreateAggregatedTables

SpecPipeline == InitPipeline /\ [][NextPipeline]_vars

(***************************************************************************)
(* The pipeline on a file that lacks columns of the published schema.      *)
(***************************************************************************)
\* raw rows of the schema specification: one admitted, one not
SchemaRows == {BaseRow} \cup Vary("grav", {Some(4)}) \cup Vary("an", {NaN})

\* the frame read from a file written without the columns missing
Without(frame, missing) ==
    [cols |-> frame.cols \ missing,
     rows |-> [i \in DOMAIN frame.rows |->
                  [c \in (DOMAIN frame.rows[i]) \ missing |-> frame.rows[i][c]]]]

\* any file of up to MaxSchemaRows rows that lacks up to MaxMissing columns
InitSchema ==
    /\ \E m \in [1..MaxMissing -> RawColumns \cup {"none"}] :
       \E k \in 0..MaxSchemaRows : \E rs \in [1..k -> SchemaRows] :
          file = Without(Frame(rs), Range(m))
    /\ Unstarted
    /\ output_path = Complete

SpecSchema == InitSchema /\ [][NextPipeline]_vars

(***************************************************************************)
(* The pipeline on one-row files that run a cell through all its values.   *)
(***************************************************************************)
\* the cells of a coded column: none, -1 and the codes from 0 to MaxCode
Codes == {NaN} \cup {Some(c) : c \in -1..MaxCode}

\* raw rows of the features specification: every hour at both ends of the
\* hour, every age, every combination of lighting, weather and surface
\* codes, every infrastructure code
FeatureRows ==
    Vary("hrmn", {NaN} \cup {Time(h, mi) : h \in 0..MaxHour, mi \in {0, 59}})
    \cup Vary("age", {NaN} \cup {Some(a) : a \in -1..MaxAge})
    \cup {[BaseRow EXCEPT !.lum = l, !.atm = a, !.surf = f] :
             l \in Codes, a \in Codes, f \in Codes}
    \cup Vary("infra", Codes)

\* any file of one row of FeatureRows
InitFeatures ==
    /\ \E r \in FeatureRows : file = Frame(<<r>>)
    /\ Unstarted
    /\ output_path = Complete

SpecFeatures == InitFeatures /\ [][NextPipeline]_vars

(***************************************************************************)
(* The dashboard: every interaction reruns app.py from top to bottom.      *)
(***************************************************************************)
\* one run of app.py with the widgets at sec, yr, deps, grav, agg
\* (yr is NaN while the slider has never been built: it takes its default)
Script(sec, yr, deps, grav, agg) ==
    \E got \in {get_data(cache, calls, file)} :
       /\ cache_hit(cache.get_data) \/ calls.clean_data < MaxCalls
       /\ cache' = got.cache
       /\ calls' = got.calls
       /\ section' = sec
       /\ IF notna(got.raised)
          THEN \* app.py 100: get_data raised, no global is assigned
               /\ pc' = "crashed"
               /\ view' = NoView(Some("KeyError"))
               /\ UNCHANGED <<df_raw, df, tables, df_filtered, year_range,
                              selected_departments, selected_gravity,
                              selected_agglomeration>>
          ELSE /\ df_raw' = got.val.df_raw
               /\ tables' = got.val.tables
               /\ IF got.val.df.rows = <<>>
                  THEN \* app.py 136: int(NaN) raises ValueError, the run ends there
                       /\ pc' = "crashed"
                       /\ df' = got.val.df
                       /\ df_filtered' = NoFrame
                       /\ view' = NoView(Some("ValueError"))
                       /\ UNCHANGED <<year_range, selected_departments,
                                      selected_gravity, selected_agglomeration>>
                  ELSE \E range \in {IF isna(yr)
                                     THEN <<year_min(got.val.df), year_max(got.val.df)>>
                                     ELSE yr} :
                       \E filtering \in {apply_filters(got.val.df,
                                             FilterSpec(range, deps, grav, agg))} :
                          /\ pc' = "rendered"
                          /\ year_range' = range
                          /\ selected_departments' = deps
                          /\ selected_gravity' = grav
                          /\ selected_agglomeration' = agg
                          /\ IF sec \in Unfiltered
                             THEN df' = got.val.df /\ df_filtered' = got.val.df
                             ELSE df' = filtering.arg /\ df_filtered' = filtering.ret
                          /\ view' = dispatch(sec, got.val.df_raw, df',
                                              df_filtered', got.val.tables)
       /\ UNCHANGED <<file, download_vars>>

\* the first run of a session: every widget at its default
Start ==
    /\ pc = "start"
    /\ Script("Introduction", NaN, {"All"}, {"All"}, "All")

\* the radio is built before the filters, so it also works after a crash
ChangeSection ==
    /\ pc \in {"rendered", "crashed"}
    /\ \E s \in Sections \ {section} :
          Script(s, year_range, selected_departments, selected_gravity,
                 selected_agglomeration)

ChangeYearRange ==
    /\ pc = "rendered"
    /\ \E lo \in year_min(df)..year_max(df), hi \in year_min(df)..year_max(df) :
          /\ lo <= hi
          /\ <<lo, hi>> # year_range
          /\ Script(section, <<lo, hi>>, selected_departments,
                    selected_gravity, selected_agglomeration)

ChangeDepartments ==
    /\ pc = "rendered"
    /\ \E deps \in SUBSET all_departments(df) \ {selected_departments} :
          Script(section, year_range, deps, selected_gravity,
                 selected_agglomeration)

ChangeGravity ==
    /\ pc = "rendered"
    /\ \E grav \in SUBSET gravity_options(df) \ {selected_gravity} :
          Script(section, year_range, selected_departments, grav,
                 selected_agglomeration)

ChangeAgglomeration ==
    /\ pc = "rendered"
    /\ \E agg \in agglomeration_options(df) \ {selected_agglomeration} :
          Script(section, year_range, selected_departments, selected_gravity,
                 agg)

\* any file of up to MaxAppRows rows of AppRows, listed in the order of AppRows
\* (nothing the dashboard does depends on the order of the rows)
Init ==
    /\ \E k \in 0..MaxAppRows : \E pick \in [1..k -> DOMAIN AppRows] :
          /\ \A i \in 1..k, j \in 1..k : i <= j => pick[i] <= pick[j]
          /\ file = Frame([i \in 1..k |-> AppRows[pick[i]]])
    /\ Unstarted
    /\ output_path = Complete

Next ==
    \/ Start
    \/ ChangeSection
    \/ ChangeYearRange
    \/ ChangeDepartments
    \/ ChangeGravity
    \/ ChangeAgglomeration

Spec == Init /\ [][Next]_vars

(***************************************************************************)
(* download_dataset (download_data.py 8-44), one run after the other.  The *)
(* file on disk is the number of chunks written to it; the network fails   *)
(* or not at each step it is used.                                         *)
(***************************************************************************)
pipeline_vars ==
    <<file, pc, df_raw, df, tables, cache, calls, widgets, df_filtered, view>>

\* the exceptions of requests.exceptions.RequestException that line 41 catches
\* and answers with a message
except_RequestException ==
    /\ printed' = "Error downloading dataset"
    /\ download_pc' = "idle"

\* lines 16-27: the run returns at once when the file exists
CheckExists ==
    /\ download_pc = "idle"
    /\ runs < MaxRuns
    /\ runs' = runs + 1
    /\ IF notna(output_path)
       THEN printed' = "Dataset already exists" /\ download_pc' = "idle"
       ELSE printed' = "Downloading dataset" /\ download_pc' = "get"
    /\ UNCHANGED <<output_path, requests_sent, pipeline_vars>>

\* lines 30-31: requests.get and raise_for_status; the connection fails, the
\* status is an error, or the response is there to be streamed
Get ==
    /\ download_pc = "get"
    /\ requests_sent' = requests_sent + 1
    /\ \E outcome \in {"ConnectionError", "HTTPError", "ok"} :
          IF outcome = "ok"
          THEN download_pc' = "open" /\ UNCHANGED printed
          ELSE except_RequestException
    /\ UNCHANGED <<output_path, runs, pipeline_vars>>

\* line 33: open(output_path, 'wb') creates the file, empty
Open ==
    /\ download_pc = "open"
    /\ output_path' = Some(0)
    /\ download_pc' = "iter_content"
    /\ UNCHANGED <<requests_sent, runs, printed, pipeline_vars>>

\* lines 34-35: the next chunk is written, or the connection breaks and
\* iter_content raises; the with statement closes the file as it is
WriteChunk ==
    /\ download_pc = "iter_content"
    /\ output_path[1] < MaxChunks
    /\ \E outcome \in {"ChunkedEncodingError", "chunk"} :
          IF outcome = "chunk"
          THEN /\ output_path' = Some(output_path[1] + 1)
               /\ UNCHANGED <<download_pc, printed>>
          ELSE except_RequestException /\ UNCHANGED output_path
    /\ UNCHANGED <<requests_sent, runs, pipeline_vars>>

\* lines 37-39: the body is exhausted
Finish ==
    /\ download_pc = "iter_content"
    /\ output_path = Complete
    /\ printed' = "Dataset downloaded successfully"
    /\ download_pc' = "idle"
    /\ UNCHANGED <<output_path, requests_sent, runs, pipeline_vars>>

\* no file, or the file of an earlier, finished download
InitDownload ==
    /\ file = NoFrame
    /\ Unstarted
    /\ output_path \in {NaN, Complete}

NextDownload == CheckExists \/ Get \/ Open \/ WriteChunk \/ Finish

SpecDownload == InitDownload /\ [][NextDownload]_vars

(***************************************************************************)
(* Properties of download_dataset (checked under SpecDownload).            *)
(***************************************************************************)
\* C30: over any sequence of runs of download_dataset with network failures
\* at any point, a file exists at data/accidentsVelofull.csv between runs
\* only if a download completed in full, so a run reports that the dataset
\* already exists only for a complete file; and a run that finds a complete
\* file makes no request and leaves the file unchanged.
C30_FileOnlyIfComplete ==
    /\ [](download_pc = "idle" /\ notna(output_path) => output_path = Complete)
    /\ [][printed' = "Dataset already exists" /\ runs' # runs
              => output_path = Complete]_vars
    /\ [][download_pc = "idle" /\ output_path = Complete
              => requests_sent' = requests_sent /\ output_path' = output_path]_vars

(***************************************************************************)
(* Properties of the pipeline (checked under SpecPipeline).                *)
(***************************************************************************)
\* clean_data has returned
Cleaned == pc \in {"cleaned", "aggregated"}

\* the raw row a cleaned row came from, found by its index label
RawRowOf(c) == file.rows[c.index + 1]

\* the index labels of the cleaned table
CleanedIndex == {df.rows[j].index : j \in DOMAIN df.rows}

\* the five admission rules as the specification words them
PassesFiveRules(r) ==
    /\ notna(r.an)
    /\ notna(r.grav)
    /\ r.an[1] >= 2005 /\ r.an[1] <= 2023
    /\ notna(r.date) /\ notna(to_datetime(r.date))
    /\ isna(r.age) \/ (r.age[1] >= 0 /\ r.age[1] <= 120)

\* C1: a raw row is in the output of clean_data if and only if it passes all
\* five admission rules (year present; severity code present; year in
\* 2005..2023; date present and a valid calendar date; age absent or in
\* 0..120), so cleaned rows plus rule-violating rows make up the raw rows.
C1_AdmittedIffFiveRules ==
    Cleaned =>
        /\ \A i \in DOMAIN file.rows :
              file.rows[i].index \in CleanedIndex <=> PassesFiveRules(file.rows[i])
        /\ Len(df.rows)
             + Cardinality({i \in DOMAIN file.rows : ~PassesFiveRules(file.rows[i])})
           = Len(file.rows)

\* labels that would stand for a code without an entry
Sentinels == {"Unspecified", "Other", "Not specified"}

C3_FatalImpliesSevere ==
    Cleaned => \A j \in DOMAIN df.rows : df.rows[j].is_fatal => df.rows[j].is_severe

\* a cleaned record of a killed cyclist next to one that is not severe
C3_Witness ==
    /\ Cleaned
    /\ \E j \in DOMAIN df.rows : df.rows[j].is_fatal
    /\ \E j \in DOMAIN df.rows : ~df.rows[j].is_severe

\* the key columns of the count tables
CountTableKeys ==
    [by_year |-> {"year", "gravity"},
     by_lighting |-> {"lighting", "gravity"},
     by_infrastructure |-> {"infrastructure", "gravity"},
     by_hour |-> {"hour", "gravity"},
     by_month_purpose |-> {"month_num", "month_name", "trip_purpose"},
     by_age |-> {"age_group", "gravity"}]

\* the sum of the count column of a count table
CountSum(t) == SumOver(tables[t], DOMAIN tables[t])

\* the sum of total_accidents over the departments
DepartmentSum ==
    SumOver([d \in DOMAIN tables.by_department |->
                tables.by_department[d].total_accidents],
            DOMAIN tables.by_department)

\* C4 as stated: the counts of every aggregate table sum to the number of
\* records of the cleaned table it was built from.
C4_CountsSumToAllRecords ==
    pc = "aggregated" =>
        /\ \A t \in DOMAIN CountTableKeys : CountSum(t) = Len(df.rows)
        /\ DepartmentSum = Len(df.rows)

\* C4 as amended: the counts of an aggregate table sum to the number of
\* cleaned records whose key columns are all non-null (records with a null
\* key are left out of the table); by_department, keyed by the never-null
\* dep, sums to the number of all cleaned records.
C4_CountsSumToKeyedRecords ==
    pc = "aggregated" =>
        /\ \A t \in DOMAIN CountTableKeys :
              CountSum(t) =
                  Cardinality({j \in DOMAIN df.rows :
                                  \A c \in CountTableKeys[t] : notna(df.rows[j][c])})
        /\ DepartmentSum = Len(df.rows)

\* two records share every key but the hour, which one of them lacks
C4_Witness ==
    /\ pc = "aggregated"
    /\ Len(df.rows) = 2
    /\ CountSum("by_hour") = 1
    /\ CountSum("by_year") = 2
    /\ DepartmentSum = 2

\* C9: clean_data leaves its argument as it was: the raw table has the same
\* rows, columns and values after the call as before it.
C9_RawUntouched == [][pc = "loaded" => df_raw' = df_raw]_vars

\* clean_data has padded a department code and dropped the technical columns
\* in its result, and the raw table still has both as read
C9_Witness ==
    /\ Cleaned
    /\ \E j \in DOMAIN df.rows : df.rows[j].dep # RawRowOf(df.rows[j]).dep
    /\ columns_to_drop \subseteq df_raw.cols
    /\ columns_to_drop \cap df.cols = {}
    /\ df_raw = read_csv(file)

\* a raw row with the six values of the specification's scenario
IsScenarioRow(r) ==
    /\ r.an = Some(2023)
    /\ r.grav = Some(2)
    /\ r.date = Day(2023, 6, 15)
    /\ r.hrmn = Time(8, 5)
    /\ r.age = Some(34)
    /\ r.dep = Some("7")

C16_DateDecomposes ==
    Cleaned =>
        /\ \A i \in DOMAIN file.rows :
               notna(file.rows[i].date) /\ isna(to_datetime(file.rows[i].date))
                   => file.rows[i].index \notin CleanedIndex
        /\ \A j \in DOMAIN df.rows :
               /\ notna(df.rows[j].month_num)
               /\ notna(df.rows[j].month_name)
               /\ notna(df.rows[j].day_of_week)
               /\ notna(df.rows[j].season)

\* the severity codes of the decoding table
KnownSeverityCodes == {1, 2, 3, 4}

\* C17 as stated: every record returned by clean_data has a severity code of
\* the known domain {1, 2, 3, 4}: a raw row whose severity code is present
\* but outside that domain is not admitted.
C17_SeverityInDomain ==
    Cleaned =>
        \A j \in DOMAIN df.rows :
            RawRowOf(df.rows[j]).grav[1] \in KnownSeverityCodes

\* C17 as amended: every record returned by clean_data has a severity code
\* that is present; the code need not be of the known domain {1, 2, 3, 4}:
\* a raw row whose severity code is present but outside the domain is
\* admitted like any other, and its cleaned record has a null severity
\* label and is neither fatal nor severe.
C17_SeverityPresent ==
    Cleaned =>
        /\ \A j \in DOMAIN df.rows : notna(RawRowOf(df.rows[j]).grav)
        /\ \A i \in DOMAIN file.rows :
               LET r == file.rows[i]
               IN ( /\ notna(r.grav) /\ r.grav[1] \notin KnownSeverityCodes
                    /\ notna(r.an) /\ r.an[1] \in 2005..2023
                    /\ notna(r.date)
                    /\ isna(r.age) \/ r.age[1] \in 0..120 )
                  => r.index \in CleanedIndex
        /\ \A j \in DOMAIN df.rows :
               RawRowOf(df.rows[j]).grav[1] \notin KnownSeverityCodes =>
                   /\ isna(df.rows[j].gravity)
                   /\ ~df.rows[j].is_fatal
                   /\ ~df.rows[j].is_severe

\* a record with severity code 9 is in the cleaned table, without a label
C17_Witness ==
    /\ Cleaned
    /\ \E j \in DOMAIN df.rows :
          /\ RawRowOf(df.rows[j]).grav = Some(9)
          /\ isna(df.rows[j].gravity)

(***************************************************************************)
(* Properties of the pipeline on a file that lacks columns (checked under  *)
(* SpecSchema).                                                            *)
(***************************************************************************)
\* C11: if a column clean_data requires (the year column, say) is absent
\* from the raw table, clean_data fails with an error that reaches its
\* caller: it returns no table, empty or partial, and nothing is aggregated;
\* with every required column there it returns.
C11_MissingColumnRaises ==
    [][pc = "loaded" =>
          IF CellColumns \subseteq df_raw.cols
          THEN pc' = "cleaned"
          ELSE /\ pc' = "KeyError"
               /\ df' = NoFrame
               /\ tables' = NoTables
               /\ cache'.get_data = NaN]_vars

\* a one-row file without the year column has made clean_data raise
C11_Witness ==
    /\ pc = "KeyError"
    /\ "an" \notin file.cols
    /\ CellColumns \ {"an"} \subseteq file.cols
    /\ Len(file.rows) = 1
    /\ df = NoFrame

(***************************************************************************)
(* Properties of the derived features (checked under SpecFeatures).        *)
(***************************************************************************)
\* C18 as stated: for every hour h in 0..23, time_period follows half-open
\* intervals: 0 <= h < 6 Night, 6 <= h < 12 Morning, 12 <= h < 18 Afternoon,
\* 18 <= h < 24 Evening, so the boundary hours 6, 12 and 18 fall in Morning,
\* Afternoon and Evening.
C18_HalfOpenTimePeriods ==
    Cleaned =>
        \A j \in DOMAIN df.rows :
            LET h == df.rows[j].hour
            IN notna(h) =>
                   df.rows[j].time_period =
                       Some(IF h[1] < 6 THEN "Night (0-6h)"
                            ELSE IF h[1] < 12 THEN "Morning (6-12h)"
                            ELSE IF h[1] < 18 THEN "Afternoon (12-18h)"
                            ELSE "Evening (18-24h)")

\* C18 as amended: for every hour h in 0..23, time_period follows intervals
\* closed on the right: 0 <= h <= 6 Night, 6 < h <= 12 Morning,
\* 12 < h <= 18 Afternoon, 18 < h <= 23 Evening, so the boundary hours 6, 12
\* and 18 fall in the lower bucket, Night, Morning and Afternoon; without an
\* hour there is no time_period.
C18_RightClosedTimePeriods ==
    Cleaned =>
        \A j \in DOMAIN df.rows :
            LET h == df.rows[j].hour
            IN /\ isna(h) <=> isna(df.rows[j].time_period)
               /\ notna(h) =>
                      /\ h[1] \in 0..23
                      /\ df.rows[j].time_period =
                             Some(IF h[1] <= 6 THEN "Night (0-6h)"
                                  ELSE IF h[1] <= 12 THEN "Morning (6-12h)"
                                  ELSE IF h[1] <= 18 THEN "Afternoon (12-18h)"
                                  ELSE "Evening (18-24h)")

\* the record of an accident at 12:59 is in the morning bucket
C18_Witness ==
    /\ Cleaned
    /\ \E j \in DOMAIN df.rows :
          /\ df.rows[j].hrmn = Time(12, 59)
          /\ df.rows[j].hour = Some(12)
          /\ df.rows[j].time_period = Some("Morning (6-12h)")

\* C19: for every admitted record whose age is present (0..120), age_group
\* is one of the seven buckets 0-12, 13-17, 18-25, 26-35, 36-50, 51-65, 65+,
\* each bucket holding its lower edge (age 0 is in 0-12, age 13 in 13-17)
\* and the last one open-ended (every age above 65 up to 120 is in 65+);
\* age_group is null only when the age is absent.
C19_AgeGroups ==
    Cleaned =>
        \A j \in DOMAIN df.rows :
            LET a == df.rows[j].age
            IN /\ isna(df.rows[j].age_group) <=> isna(a)
               /\ notna(a) =>
                      df.rows[j].age_group =
                          Some(IF a[1] <= 12 THEN "0-12"
                               ELSE IF a[1] <= 17 THEN "13-17"
                               ELSE IF a[1] <= 25 THEN "18-25"
                               ELSE IF a[1] <= 35 THEN "26-35"
                               ELSE IF a[1] <= 50 THEN "36-50"
                               ELSE IF a[1] <= 65 THEN "51-65"
                               ELSE "65+")

\* C20 as stated: dangerous_conditions is true exactly when the lighting is
\* a night code (3, 4 or 5), or the weather is rain, snow, fog, wind or
\* dazzle (codes 2 to 7), or the surface is wet, puddles, snow, ice, mud or
\* oil (codes 2, 3, 5, 7, 6, 8).
C20_DangerousByLabelSets ==
    Cleaned =>
        \A j \in DOMAIN df.rows :
            LET r == RawRowOf(df.rows[j])
            IN df.rows[j].dangerous_conditions <=>
                   \/ isin(r.lum, {3, 4, 5})
                   \/ isin(r.atm, {2, 3, 4, 5, 6, 7})
                   \/ isin(r.surf, {2, 3, 5, 7, 6, 8})

\* C20 as amended: dangerous_conditions is true exactly when the lighting
\* code is 3 or more (the night codes 3, 4, 5 and any larger code), or the
\* weather code is 2, 3, 4 or 5 (rain, snow, fog; not wind 6 nor dazzle 7),
\* or the surface code is 2, 3, 5 or 7 (wet, puddles, snow, ice; not mud 6
\* nor oil 8); a missing code counts for nothing.
C20_DangerousByCodeLists ==
    Cleaned =>
        \A j \in DOMAIN df.rows :
            LET r == RawRowOf(df.rows[j])
            IN df.rows[j].dangerous_conditions <=>
                   \/ notna(r.lum) /\ r.lum[1] >= 3
                   \/ notna(r.atm) /\ r.atm[1] \in {2, 3, 4, 5}
                   \/ notna(r.surf) /\ r.surf[1] \in {2, 3, 5, 7}

\* in daylight on a dry road, strong wind alone is not a dangerous condition
C20_Witness ==
    /\ Cleaned
    /\ \E j \in DOMAIN df.rows :
          /\ RawRowOf(df.rows[j]).lum = Some(1)
          /\ RawRowOf(df.rows[j]).atm = Some(6)
          /\ RawRowOf(df.rows[j]).surf = Some(1)
          /\ ~df.rows[j].dangerous_conditions

\* the department codes the specification calls valid: two digits, 2A or 2B
Digits == {"0", "1", "2", "3", "4", "5", "6", "7", "8", "9"}

ValidDepartments == {a \o b : a \in Digits, b \in Digits} \cup {"2A", "2B"}

\* C22: department normalisation left-pads a one-character numeric code to
\* two characters ("7" becomes "07"), leaves a two-character code ("75",
\* "2A", "2B") unchanged, and normalising a normalised code again returns it
\* unchanged; whether a record is kept does not depend on its department, so
\* a record whose department does not match the valid pattern is kept.
C22_DepartmentNormalised ==
    Cleaned =>
        /\ \A j \in DOMAIN df.rows :
               LET raw == RawRowOf(df.rows[j]).dep
                   dep == df.rows[j].dep
               IN /\ notna(dep)
                  /\ notna(raw) /\ raw[1] \in Digits => dep = Some("0" \o raw[1])
                  /\ notna(raw) /\ Len(raw[1]) = 2 => dep = raw
                  /\ normalize_dep(<<df.rows[j]>>)[1].dep = dep
        /\ \A i \in DOMAIN file.rows :
               file.rows[i].index \in CleanedIndex
                   <=> remove_invalid_rows(
                           <<[file.rows[i] EXCEPT !.dep = Some("75")]>>) # <<>>

\* a "7" was padded to "07" next to a kept record whose department is not a
\* valid code
C22_Witness ==
    /\ Cleaned
    /\ \E j \in DOMAIN df.rows :
          RawRowOf(df.rows[j]).dep = Some("7") /\ df.rows[j].dep = Some("07")
    /\ \E j \in DOMAIN df.rows : df.rows[j].dep[1] \notin ValidDepartments

\* C23: an admitted record whose time field cannot be parsed as HH:MM (it is
\* missing, or its hour or minute is out of range) is kept with a null hour,
\* never hour 0; when the time field parses, hour is its hour, an integer
\* of 0..23.
C23_HourNullOrParsed ==
    Cleaned =>
        /\ \A j \in DOMAIN df.rows :
               LET hrmn == RawRowOf(df.rows[j]).hrmn
                   parses == /\ notna(hrmn)
                             /\ hrmn[1].h >= 0 /\ hrmn[1].h <= 23
                             /\ hrmn[1].mi >= 0 /\ hrmn[1].mi <= 59
               IN IF parses
                  THEN df.rows[j].hour = Some(hrmn[1].h) /\ hrmn[1].h \in 0..23
                  ELSE isna(df.rows[j].hour)
        /\ \A i \in DOMAIN file.rows :
               file.rows[i].index \in CleanedIndex
                   <=> remove_invalid_rows(
                           <<[file.rows[i] EXCEPT !.hrmn = Time(8, 5)]>>) # <<>>

\* a record timed 24:00 was kept, without an hour
C23_Witness ==
    /\ Cleaned
    /\ \E j \in DOMAIN df.rows :
          RawRowOf(df.rows[j]).hrmn = Time(24, 0) /\ isna(df.rows[j].hour)

\* C24: when the validated year field of an admitted record disagrees with
\* the year of its parsed date, the cleaned record's year is the year of the
\* date, and the record is kept.
C24_YearFromDate ==
    Cleaned =>
        \A i \in DOMAIN file.rows :
            LET raw == file.rows[i]
                day == to_datetime(raw.date)
            IN /\ remove_invalid_rows(<<raw>>) # <<>>
               /\ notna(day)
               /\ raw.an[1] # day[1].y
               => /\ raw.index \in CleanedIndex
                  /\ \A j \in DOMAIN df.rows :
                         df.rows[j].index = raw.index
                             => df.rows[j].year = Some(day[1].y)

\* the count by_lighting holds for the pair g, 0 when it has no row for it
LightingCount(g) ==
    IF g \in DOMAIN tables.by_lighting THEN tables.by_lighting[g] ELSE 0

\* C26: each (lighting, severity) count of the lighting-by-severity table is
\* the number of cleaned records with that pair; for a cleaned table of two
\* records of severity code 2, one of lighting code 3 and one of lighting
\* code 1, the table holds count 1 for ("Night without street lighting",
\* "Killed") and count 1 for ("Daylight", "Killed").
C26_LightingBySeverity ==
    pc = "aggregated" =>
        /\ \A l \in Range(LIGHTING_DICT) : \A g \in Range(GRAVITY_DICT) :
               LightingCount(<<l, g>>) =
                   Cardinality({j \in DOMAIN df.rows :
                                   /\ df.rows[j].lighting = Some(l)
                                   /\ df.rows[j].gravity = Some(g)})
        /\ \A g \in DOMAIN tables.by_lighting : tables.by_lighting[g] >= 1
        /\ /\ Len(df.rows) = 2
           /\ {<<RawRowOf(df.rows[j]).lum, RawRowOf(df.rows[j]).grav>> :
                   j \in DOMAIN df.rows}
                  = {<<Some(3), Some(2)>>, <<Some(1), Some(2)>>}
           => tables.by_lighting =
                  (<<"Night without street lighting", "Killed">> :> 1)
                  @@ (<<"Daylight", "Killed">> :> 1)

\* the table of the two records, one at night and one in daylight
C26_Witness ==
    /\ pc = "aggregated"
    /\ Len(df.rows) = 2
    /\ {<<RawRowOf(df.rows[j]).lum, RawRowOf(df.rows[j]).grav>> : j \in DOMAIN df.rows}
           = {<<Some(3), Some(2)>>, <<Some(1), Some(2)>>}
    /\ LightingCount(<<"Night without street lighting", "Killed">>) = 1
    /\ LightingCount(<<"Daylight", "Killed">>) = 1

\* C27: in every table built by create_aggregated_tables a key combination
\* with no observation is absent: every row of every aggregate table, by_age
\* included, has a count of at least 1.
C27_NoZeroCountRows ==
    pc = "aggregated" =>
        /\ \A t \in DOMAIN CountTableKeys :
               \A g \in DOMAIN tables[t] : tables[t][g] >= 1
        /\ \A d \in DOMAIN tables.by_department :
               tables.by_department[d].total_accidents >= 1

\* C21: for every admitted record, has_bike_infrastructure is true exactly
\* when the infrastructure code is 1 (physically separated lane) or 2
\* (painted lane); codes 0, 3 (reserved lane), 4 (other) and a missing code
\* all give false.
C21_BikeInfrastructure ==
    Cleaned =>
        \A j \in DOMAIN df.rows :
            LET infra == RawRowOf(df.rows[j]).infra
            IN /\ df.rows[j].has_bike_infrastructure <=> infra \in {Some(1), Some(2)}
               /\ infra \in {NaN, Some(0), Some(3), Some(4)}
                      => ~df.rows[j].has_bike_infrastructure

\* a record on a reserved lane is cleaned without the flag
C21_Witness ==
    /\ Cleaned
    /\ \E j \in DOMAIN df.rows :
          /\ RawRowOf(df.rows[j]).infra = Some(3)
          /\ df.rows[j].infrastructure = Some("Reserved lane")
          /\ ~df.rows[j].has_bike_infrastructure

(***************************************************************************)
(* Properties of the dashboard (checked under Spec).                       *)
(***************************************************************************)
\* the run has reached the dispatch with a filtered table
Filtered == pc = "rendered" /\ section \notin Unfiltered

\* the render function of each navigation choice
SectionPage ==
    ("Introduction" :> "intro.render") @@ ("Data Quality" :> "data_quality.render")
    @@ ("Overview" :> "overview.render")
    @@ ("Deep Dive Analysis" :> "deep_dives.render")
    @@ ("Conclusions" :> "conclusions.render")

\* C28: for each of the five navigation choices the app calls the render
\* function of that section with the arguments its signature requires, so
\* no section selection ends in a call error before anything is rendered.
C28_DispatchMatchesSignature ==
    pc = "rendered" =>
        /\ view.page = SectionPage[section]
        /\ Len(view.handed) >= required_arguments[view.page]
        /\ view.raised # Some("TypeError")

\* the user has moved a sidebar filter away from its default
FilterMoved ==
    \/ year_range # <<year_min(df), year_max(df)>>
    \/ selected_departments # {"All"}
    \/ selected_gravity # {"All"}
    \/ selected_agglomeration # "All"

\* C29: the Overview and Deep Dive pages compute filters_active = True
\* exactly when the user has moved a sidebar filter away from its default (a
\* narrower year range, a department or severity selection other than
\* ['All'], a location type other than 'All'), and the Overview shows the
\* location-filter warning instead of the department map exactly when a
\* location type is selected.
C29_FiltersActiveWhenMoved ==
    /\ pc = "rendered"
    /\ section \in {"Overview", "Deep Dive Analysis"}
    /\ isna(view.raised)
    => /\ view.figures.filters_active <=> FilterMoved
       /\ section = "Overview" =>
              (view.figures.location_warning <=> selected_agglomeration # "All")

\* C25: in the cleaning summary the Data Quality page shows, rows_removed is
\* the number of raw rows that failed admission (original rows minus cleaned
\* rows), cols_removed is the number of raw columns that are absent from the
\* cleaned table, and neither count is negative.
C25_CleaningSummary ==
    view.page = "data_quality.render" /\ isna(view.raised) =>
        LET raw == view.handed[1]
            clean == view.handed[2]
            summary == view.figures.summary
            kept == {clean.rows[k].index : k \in DOMAIN clean.rows}
        IN /\ summary.rows_removed = summary.original_rows - summary.cleaned_rows
           /\ summary.rows_removed
                  = Cardinality({i \in DOMAIN raw.rows : raw.rows[i].index \notin kept})
           /\ summary.cols_removed = Cardinality(raw.cols \ clean.cols)
           /\ summary.rows_removed >= 0
           /\ summary.cols_removed >= 0

\* the year, severity and location predicates of the current selection
MatchesYear(r) == r.year[1] >= year_range[1] /\ r.year[1] <= year_range[2]

MatchesGravity(r) ==
    \/ "All" \in selected_gravity
    \/ notna(r.gravity) /\ r.gravity[1] \in selected_gravity

MatchesAgglomeration(r) ==
    \/ selected_agglomeration = "All"
    \/ r.agglomeration = Some(selected_agglomeration)

MatchesDepartment(r) ==
    \/ "All" \in selected_departments
    \/ r.dep[1] \in selected_departments

FilterOrders ==
    {o \in [1..4 -> 1..4] : \A i \in 1..4, j \in 1..4 : o[i] = o[j] => i = j}

\* the filter specification of the current selection
CurrentSpec ==
    FilterSpec(year_range, selected_departments, selected_gravity,
               selected_agglomeration)

C7_FilterLeavesTablesAlone ==
    [][pc # "start" => df' = df /\ tables' = tables]_vars

\* a filtered section shows fewer records than the cleaned table holds
C7_Witness ==
    /\ Filtered
    /\ Len(df_filtered.rows) < Len(df.rows)
    /\ df = cache.get_data[1].df

\* C10: within one process load_data, clean_data and create_aggregated_tables
\* each run at most once; a change of section or filter reruns the filter
\* without running the pipeline again.
C10_PipelineRunsOnce ==
    /\ calls.load_data <= 1
    /\ calls.clean_data <= 1
    /\ calls.create_aggregated_tables <= 1
    /\ pc # "start" => calls.clean_data = 1

\* at least four interactions after the first run, and still one pipeline run
C10_Witness ==
    /\ Filtered
    /\ selected_departments = {}
    /\ selected_gravity = {}
    /\ selected_agglomeration # "All"
    /\ calls.clean_data = 1

\* the run has rendered the page of a section over a table without records
EmptyPage(page, frame) ==
    pc = "rendered" /\ view.page = page /\ frame.rows = <<>>

\* C12: reporting over an empty filtered subset is a valid outcome: when the
\* filter matches no record, the aggregations of the Overview and of the
\* Deep Dive (statistics per hour, season and day, and their peaks)
\* complete with empty or zero-filled results and raise nothing.
C12_EmptySubsetRenders ==
    /\ EmptyPage("overview.render", df_filtered) =>
           /\ isna(view.raised)
           /\ view.figures.total_accidents = 0
           /\ view.figures.total_fatal = 0
    /\ EmptyPage("deep_dives.render", df_filtered) => isna(view.raised)

\* C13: every rate over a zero-count denominator (the fatal and the severe
\* rate of an empty selection, the share of rows removed from an empty raw
\* table) is the NaN sentinel, and no division fault is raised.
C13_ZeroDenominatorIsNaN ==
    /\ EmptyPage("overview.render", df_filtered) =>
           /\ isna(view.raised)
           /\ isna(view.figures.fatal_rate)
           /\ isna(view.figures.severe_rate)
    /\ EmptyPage("data_quality.render", df_raw) =>
           /\ isna(view.raised)
           /\ isna(view.figures.removal_pct)

\* the cleaned records the current selection matches
Selected ==
    SelectSeq(df.rows, LAMBDA r :
        /\ MatchesYear(r)
        /\ selected_departments = {} \/ MatchesDepartment(r)
        /\ selected_gravity = {} \/ MatchesGravity(r)
        /\ MatchesAgglomeration(r))

\* the pages of the sections that report on filtered data
FilteredPages == {"overview.render", "deep_dives.render", "conclusions.render"}

\* C14: the record-level table handed to the Overview, the Deep Dive and the
\* Conclusions is the output of apply_filters for the current selection,
\* and the figures those pages compute are figures of that subset, not of
\* the unfiltered cleaned table nor of the static aggregate tables; only
\* Introduction and Data Quality are handed unfiltered data.
C14_PagesSeeOnlyFilteredRecords ==
    pc = "rendered" =>
        /\ view.page \in FilteredPages <=> section \notin Unfiltered
        /\ view.page \in FilteredPages =>
               /\ view.handed[1] = apply_filters(df, CurrentSpec).ret
               /\ view.handed[1].rows = Selected
        /\ view.page = "overview.render" /\ isna(view.raised) =>
               /\ view.figures.total_accidents = Len(Selected)
               /\ view.figures.total_fatal =
                      Cardinality({i \in DOMAIN Selected : Selected[i].is_fatal})
               /\ view.figures.total_severe =
                      Cardinality({i \in DOMAIN Selected : Selected[i].is_severe})
        /\ view.page = "deep_dives.render" /\ isna(view.raised) =>
               /\ \A i \in DOMAIN Selected :
                      view.figures.peak_count >=
                          Cardinality({j \in DOMAIN Selected :
                                          Selected[j].hour = Selected[i].hour})
               /\ \E i \in DOMAIN Selected :
                      /\ Selected[i].hour = Some(view.figures.peak_hour)
                      /\ view.figures.peak_count =
                             Cardinality({j \in DOMAIN Selected :
                                             Selected[j].hour = Selected[i].hour})
        /\ view.page = "data_quality.render" => view.handed = <<df_raw, df>>

\* the Overview counts the one record of two that the selection matches
C14_Witness ==
    /\ pc = "rendered"
    /\ view.page = "overview.render"
    /\ isna(view.raised)
    /\ Len(df.rows) = 2
    /\ view.figures.total_accidents = 1
    /\ view.figures.total_fatal = 0

====
